---- MODULE Spec2Model ----
(***************************************************************************)
(* Model of the directory-size scanner in src-tauri/src/scanner.rs:        *)
(* the global cancellation slot, the global file cache, the multi-pass     *)
(* indexed scanner (mdfind), the fallback scanner (du), the tree builder,  *)
(* and the events they emit.                                               *)
(*                                                                         *)
(* Text is a sequence of one-character strings, a path (PathBuf) is the    *)
(* sequence of its components, a HashMap<PathBuf,u64> is a function from a *)
(* set of paths to sizes.  Sizes are bytes.  The capacities of the code    *)
(* (1000, 2000, 100, 50, 10) are scaled down, each in a definition of its  *)
(* own that names the original value; thresholds and sizes are unscaled.   *)
(***************************************************************************)
EXTENDS Integers, Sequences, FiniteSets, TLC

(***************************************************************************)
(* Bounds of the model                                                     *)
(***************************************************************************)
\* total number of scan_directory calls in one run of the process
MaxScans == 2

(***************************************************************************)
(* Scaled capacities of the code                                           *)
(***************************************************************************)
\* cache_guard.truncate(1000)
CacheCap == 6
\* "| head -2000" of the index pipeline
RawCap == 7
\* "| sort -nr | head -1000" of the index pipeline
MergeCap == 6
\* all_files.len() > 10 before a pass emits a preview
PreviewMin == 2
\* root_children.truncate(100) / children.truncate(100)
ChildCap == 3
\* children.len() > 50 before the fallback filters small files
FilterCount == 2
\* "| head -100" of the du pipeline
DuHead == 3

\* let min_size = 1024 * 1024
MinSize == 1048576
\* 1024 * 1024 placeholder for directories of the direct enumeration
DirPlaceholder == 1048576

\* size_thresholds, in pass order
size_thresholds == << 104857600, 52428800, 10485760, 5242880 >>
NumPasses == Len(size_thresholds)

(***************************************************************************)
(* Text                                                                    *)
(***************************************************************************)
DigitChars == << "0", "1", "2", "3", "4", "5", "6", "7", "8", "9" >>

IsDigit(c) == \E i \in 1..10 : DigitChars[i] = c

DigitVal(c) == (CHOOSE i \in 1..10 : DigitChars[i] = c) - 1

\* char::is_whitespace, on the characters of the model
IsSpace(c) == c \in { " ", "\t" }

\* format!("{}", n) / stat's %z / du's size column: decimal digits
RECURSIVE FormatNat(_)
FormatNat(n) ==
    IF n < 10 THEN << DigitChars[n + 1] >>
    ELSE FormatNat(n \div 10) \o << DigitChars[(n % 10) + 1] >>

RECURSIVE DigitsValue(_)
DigitsValue(t) ==
    IF t = << >> THEN 0
    ELSE 10 * DigitsValue(SubSeq(t, 1, Len(t) - 1)) + DigitVal(t[Len(t)])

\* str::parse::<u64>: an optional '+', then one or more digits; -1 stands for Err
ParseU64(t) ==
    LET body == IF t # << >> /\ t[1] = "+" THEN Tail(t) ELSE t
    IN  IF body # << >> /\ \A i \in 1..Len(body) : IsDigit(body[i])
        THEN DigitsValue(body)
        ELSE -1

\* str::find(c): index of the first occurrence, 0 for None
Find(t, c) ==
    IF \E i \in 1..Len(t) : t[i] = c
    THEN CHOOSE i \in 1..Len(t) : t[i] = c /\ \A j \in 1..(i - 1) : t[j] # c
    ELSE 0

RECURSIVE TrimStart(_)
TrimStart(t) ==
    IF t # << >> /\ IsSpace(t[1]) THEN TrimStart(Tail(t)) ELSE t

RECURSIVE TrimEnd(_)
TrimEnd(t) ==
    IF t # << >> /\ IsSpace(t[Len(t)]) THEN TrimEnd(SubSeq(t, 1, Len(t) - 1)) ELSE t

\* str::trim
Trim(t) == TrimEnd(TrimStart(t))

\* str::split_whitespace: the maximal runs of non-whitespace characters
RECURSIVE SplitWhitespace(_)
SplitWhitespace(t) ==
    LET u == TrimStart(t)
    IN  IF u = << >> THEN << >>
        ELSE LET stops == { i \in 1..Len(u) : IsSpace(u[i]) }
                 n == IF stops = {} THEN Len(u) + 1
                      ELSE CHOOSE i \in stops : \A j \in stops : i <= j
             IN  << SubSeq(u, 1, n - 1) >> \o SplitWhitespace(SubSeq(u, n, Len(u)))

\* [&str]::join(" ")
RECURSIVE JoinSpace(_)
JoinSpace(parts) ==
    IF parts = << >> THEN << >>
    ELSE IF Len(parts) = 1 THEN parts[1]
    ELSE parts[1] \o << " " >> \o JoinSpace(Tail(parts))

(***************************************************************************)
(* Paths                                                                   *)
(***************************************************************************)
\* Path::to_string_lossy of an absolute path given by its components
RECURSIVE PathText(_)
PathText(p) ==
    IF p = << >> THEN << "/" >>
    ELSE IF Len(p) = 1 THEN << "/" >> \o p[1]
    ELSE PathText(SubSeq(p, 1, Len(p) - 1)) \o << "/" >> \o p[Len(p)]

\* the text is an absolute path
IsAbsText(t) == t # << >> /\ t[1] = "/"

\* PathBuf::from(text).components() without the root: split on '/', empty
\* components (repeated and trailing separators) dropped
RECURSIVE PathFromText(_)
PathFromText(t) ==
    IF t = << >> THEN << >>
    ELSE IF t[1] = "/" THEN PathFromText(Tail(t))
    ELSE LET stops == { i \in 1..Len(t) : t[i] = "/" }
             n == IF stops = {} THEN Len(t) + 1
                  ELSE CHOOSE i \in stops : \A j \in stops : i <= j
         IN  << SubSeq(t, 1, n - 1) >> \o PathFromText(SubSeq(t, n, Len(t)))

\* Path::starts_with: component-wise prefix
starts_with(p, base) ==
    Len(base) <= Len(p) /\ SubSeq(p, 1, Len(base)) = base

\* Path::parent is None exactly for "/"
HasParent(p) == Len(p) > 0

Parent(p) == SubSeq(p, 1, Len(p) - 1)

\* Path::file_name is None exactly for "/"
HasFileName(p) == Len(p) > 0

file_name(p) == p[Len(p)]

\* Path::components().count(): the root component counts
components_count(p) == Len(p) + 1

\* Path::join(name) for a relative name
Join(p, nameText) == p \o PathFromText(nameText)

\* the ancestors of p, nearest first: p.parent(), its parent, ...
RECURSIVE Ancestors(_)
Ancestors(p) ==
    IF ~HasParent(p) THEN << >>
    ELSE << Parent(p) >> \o Ancestors(Parent(p))

(***************************************************************************)
(* The file system and the external tools (the environment of a scan)      *)
(***************************************************************************)
\* the regular files of the file system, path -> size in bytes; directories
\* are the proper prefixes of these paths
Files ==
    ( << <<"r">>, <<"x">> >>                 :> 157286400 ) @@
    ( << <<"r">>, <<"m", " ", " ", "n">> >>  :> 8388608 ) @@
    ( << <<"r">>, <<"w">> >>                 :> 7340032 ) @@
    ( << <<"r">>, <<"s">> >>                 :> 1024 ) @@
    ( << <<"r">>, <<"d">>, <<"y">> >>        :> 62914560 ) @@
    ( << <<"r">>, <<"d">>, <<"k">> >>        :> 62914560 ) @@
    ( << <<"r">>, <<"d">>, <<"t">> >>        :> 5242880 ) @@
    ( << <<"r">>, <<"d">>, <<"e">>, <<"z">> >> :> 12582912 ) @@
    ( << <<"q">>, <<"v">> >>                 :> 20971520 )

\* the value of the HOME environment variable
HomeText == << "/", "r" >>

\* the path texts a scan may be asked for: directories of the file system, the
\* home directory also with a trailing separator, and a path that does not exist
RootTexts ==
    { << "/" >>, << "/", "r" >>, << "/", "r", "/", "d" >>,
      << "/", "r", "/" >>, << "/", "n" >> }

\* Path::is_dir
is_dir(p) == \E f \in DOMAIN Files : Len(p) < Len(f) /\ starts_with(f, p)

\* the files nested below directory p
FilesUnder(p) == { f \in DOMAIN Files : Len(p) < Len(f) /\ starts_with(f, p) }

\* sum of a path -> size map over a set of its keys
RECURSIVE SumOver(_, _)
SumOver(m, S) ==
    IF S = {} THEN 0
    ELSE LET p == CHOOSE q \in S : TRUE
         IN  m[p] + SumOver(m, S \ {p})

\* byte value of a character, for sort's last-resort comparison
Code(c) ==
    CASE c = "\t" -> 9
      [] c = " " -> 32
      [] c = "+" -> 43
      [] c = "/" -> 47
      [] IsDigit(c) -> 48 + DigitVal(c)
      [] c = "d" -> 100 [] c = "e" -> 101 [] c = "k" -> 107 [] c = "m" -> 109
      [] c = "n" -> 110 [] c = "q" -> 113 [] c = "r" -> 114 [] c = "s" -> 115
      [] c = "t" -> 116 [] c = "v" -> 118 [] c = "w" -> 119 [] c = "x" -> 120
      [] c = "y" -> 121 [] c = "z" -> 122
      [] OTHER -> 63

\* bytewise a < b
RECURSIVE TextLess(_, _)
TextLess(a, b) ==
    IF b = << >> THEN FALSE
    ELSE IF a = << >> THEN TRUE
    ELSE IF a[1] # b[1] THEN Code(a[1]) < Code(b[1])
    ELSE TextLess(Tail(a), Tail(b))

\* the leading number sort -n reads from a line (0 when there is none)
RECURSIVE LeadingDigits(_)
LeadingDigits(t) ==
    IF t # << >> /\ IsDigit(t[1]) THEN << t[1] >> \o LeadingDigits(Tail(t)) ELSE << >>

SortKey(line) == DigitsValue(LeadingDigits(line))

\* line a comes before line b in the output of "sort -nr"
SortNrBefore(a, b) ==
    \/ SortKey(a) > SortKey(b)
    \/ SortKey(a) = SortKey(b) /\ TextLess(b, a)

\* "sort -nr" of a set of distinct lines
RECURSIVE SortNr(_)
SortNr(L) ==
    IF L = {} THEN << >>
    ELSE LET first == CHOOSE a \in L : \A b \in L \ {a} : SortNrBefore(a, b)
         IN  << first >> \o SortNr(L \ {first})

\* "head -n"
Head_n(seq, n) == SubSeq(seq, 1, IF Len(seq) < n THEN Len(seq) ELSE n)

\* stat -f '%z %N' of one file
StatLine(f) == FormatNat(Files[f]) \o << " " >> \o PathText(f)

\* mdfind -onlyin root 'kMDItemFSSize > threshold': the indexed files below root
IndexHits(root, threshold) == { f \in FilesUnder(root) : Files[f] > threshold }

\* what "| head -2000" may let through: mdfind's order is unspecified
RawChoices(hits) ==
    IF Cardinality(hits) <= RawCap THEN { hits }
    ELSE { S \in SUBSET hits : Cardinality(S) = RawCap }

\* the possible outputs (sequences of lines) of one pass's pipeline
MdfindOutputs(root, threshold) ==
    { Head_n(SortNr({ StatLine(f) : f \in raw }), MergeCap) :
        raw \in RawChoices(IndexHits(root, threshold)) }

\* the names "*" expands to in root: its entries that do not start with '.'
GlobNames(root) ==
    { f[Len(root) + 1] : f \in { g \in FilesUnder(root) : g[Len(root) + 1][1] # "." } }

\* du -sk of one entry of root: kilobytes, a tab, the name
DuLine(root, name) ==
    LET below == { f \in DOMAIN Files : starts_with(f, root \o << name >>) }
        bytes == SumOver(Files, below)
    IN  FormatNat((bytes + 1023) \div 1024) \o << "\t" >> \o name

\* output of "cd root && du -sk * 2>/dev/null | sort -rn | head -100"
DuOutput(root) ==
    Head_n(SortNr({ DuLine(root, n) : n \in GlobNames(root) }), DuHead)

\* fs::read_dir(root): the entries of root, as [name, is_dir, len]
ReadDir(root) ==
    { [ name |-> n,
        is_dir |-> is_dir(root \o << n >>),
        len |-> IF (root \o << n >>) \in DOMAIN Files THEN Files[root \o << n >>] ELSE 0 ] :
      n \in { f[Len(root) + 1] : f \in FilesUnder(root) } }

(***************************************************************************)
(* Vec and HashMap helpers                                                 *)
(***************************************************************************)
\* insert e behind every element whose size is >= e.size
RECURSIVE InsertDesc(_, _)
InsertDesc(sorted, e) ==
    IF sorted = << >> THEN << e >>
    ELSE IF Head(sorted).size >= e.size THEN << Head(sorted) >> \o InsertDesc(Tail(sorted), e)
    ELSE << e >> \o sorted

\* slice::sort_by(|a, b| b.size.cmp(&a.size)): stable, largest size first
RECURSIVE SortBySizeDesc(_)
SortBySizeDesc(v) ==
    IF v = << >> THEN << >>
    ELSE InsertDesc(SortBySizeDesc(SubSeq(v, 1, Len(v) - 1)), v[Len(v)])

\* Vec::truncate(n)
Truncate(v, n) == IF Len(v) > n THEN SubSeq(v, 1, n) ELSE v

\* children.retain(|child| child.size >= min_size || child.is_dir)
RECURSIVE RetainSignificant(_)
RetainSignificant(v) ==
    IF v = << >> THEN << >>
    ELSE (IF Head(v).size >= MinSize \/ Head(v).is_dir THEN << Head(v) >> ELSE << >>)
         \o RetainSignificant(Tail(v))

\* all the orders in which the elements of a set can be enumerated
RECURSIVE Perms(_)
Perms(S) ==
    IF S = {} THEN { << >> }
    ELSE UNION { { << x >> \o rest : rest \in Perms(S \ {x}) } : x \in S }

RECURSIVE SumSizes(_)
SumSizes(v) == IF v = << >> THEN 0 ELSE Head(v).size + SumSizes(Tail(v))

\* The iteration orders of a HashMap<PathBuf,u64>, as sequences of
\* [path, size].  The order is arbitrary (RandomState).  Every consumer of an
\* iteration pushes the entries and then sorts stably by size, so only the
\* relative order of entries of equal size can be observed: one order is listed
\* for each arrangement of the equal-size entries.
RECURSIVE IterOrders(_)
IterOrders(m) ==
    IF DOMAIN m = {} THEN { << >> }
    ELSE LET top == { p \in DOMAIN m : \A q \in DOMAIN m : m[q] <= m[p] }
         IN  UNION { { << [ path |-> p, size |-> m[p] ] >> \o rest :
                         rest \in IterOrders([ q \in DOMAIN m \ {p} |-> m[q] ]) } :
                     p \in top }

\* the empty HashMap
EmptyMap == [ p \in {} |-> 0 ]

\* HashMap::insert
MapInsert(m, p, v) == [ q \in DOMAIN m \cup {p} |-> IF q = p THEN v ELSE m[q] ]

(***************************************************************************)
(* The file cache                                                          *)
(***************************************************************************)
\* add_files_to_cache on a cache (Vec<CachedFile>), iter the iteration order of
\* the batch: push every entry, sort by size descending, keep the first 1000
AddTruncateFirst(c, iter) == SortBySizeDesc(Truncate(c \o iter, CacheCap))

AddUnsorted(c, iter) == Truncate(c \o iter, CacheCap)

add_files_to_cache(c, iter) == Truncate(SortBySizeDesc(c \o iter), CacheCap)

\* get_cached_files_for_directory: the entries below target_path, inserted in
\* cache order into a HashMap (a later entry of the same path replaces an earlier)
RECURSIVE get_cached_files_for_directory(_, _)
get_cached_files_for_directory(c, target_path) ==
    IF c = << >> THEN EmptyMap
    ELSE LET before == get_cached_files_for_directory(SubSeq(c, 1, Len(c) - 1), target_path)
             last == c[Len(c)]
         IN  IF starts_with(last.path, target_path)
             THEN MapInsert(before, last.path, last.size)
             ELSE before

(***************************************************************************)
(* The tree builder                                                        *)
(***************************************************************************)
NoChildren == [ some |-> FALSE, list |-> << >> ]

\* if v.is_empty() { None } else { Some(v) }
SomeUnlessEmpty(v) == IF v = << >> THEN NoChildren ELSE [ some |-> TRUE, list |-> v ]

FileNode(name, path, size, isdir, children) ==
    [ name |-> name, path |-> path, size |-> size, is_dir |-> isdir, children |-> children ]

RootName == << "R", "o", "o", "t" >>
HomeName == << "H", "o", "m", "e" >>

\* the root's name in build_tree_from_files: the path text is compared with HOME
TreeRootName(root_text) ==
    IF root_text = << "/" >> THEN RootName
    ELSE IF root_text = HomeText THEN HomeName
    ELSE IF HasFileName(PathFromText(root_text)) THEN file_name(PathFromText(root_text))
    ELSE RootName

\* the file node of one entry of the file map
LeafNode(e) == FileNode(file_name(e.path), PathText(e.path), e.size, FALSE, NoChildren)

\* dir_contents: the file nodes of the map grouped by parent, in iteration order
RECURSIVE DirContents(_, _)
DirContents(iter, dir) ==
    IF iter = << >> THEN << >>
    ELSE (IF HasParent(Head(iter).path) /\ Parent(Head(iter).path) = dir
          THEN << LeafNode(Head(iter)) >> ELSE << >>) \o DirContents(Tail(iter), dir)

\* Vec<PathBuf>::sort of paths that share their parent: by the last component
RECURSIVE SortPaths(_)
SortPaths(S) ==
    IF S = {} THEN << >>
    ELSE LET first == CHOOSE a \in S : \A b \in S \ {a} : TextLess(file_name(a), file_name(b))
         IN  << first >> \o SortPaths(S \ {first})

\* the keys dir_contents still has after the loop over all_dirs, which removes
\* the entry of every directory of dir_sizes but the root
KeysAfterDirLoop(iter, dir_sizes, root_path) ==
    { Parent(iter[i].path) : i \in { j \in 1..Len(iter) : HasParent(iter[j].path) } }
        \ (DOMAIN dir_sizes \ {root_path})

\* the node of one immediate subdirectory of the root
SubdirNode(subdir, iter, dir_sizes, root_path) ==
    FileNode(file_name(subdir), PathText(subdir), dir_sizes[subdir], TRUE,
             IF subdir \in KeysAfterDirLoop(iter, dir_sizes, root_path)
             THEN SomeUnlessEmpty(DirContents(iter, subdir))
             ELSE NoChildren)

RECURSIVE SubdirNodes(_, _, _, _)
SubdirNodes(subdirs, iter, dir_sizes, root_path) ==
    IF subdirs = << >> THEN << >>
    ELSE (IF dir_sizes[Head(subdirs)] > 0
          THEN << SubdirNode(Head(subdirs), iter, dir_sizes, root_path) >>
          ELSE << >>) \o SubdirNodes(Tail(subdirs), iter, dir_sizes, root_path)

\* build_tree_from_files(files, dir_sizes, root_path), iter the iteration order
\* of files
build_tree_from_files(iter, dir_sizes, root_text) ==
    LET root_path == PathFromText(root_text)
        total_size == SumSizes(iter)
        root_level == components_count(root_path)
        immediate_subdirs ==
            SortPaths({ p \in DOMAIN dir_sizes :
                          components_count(p) = root_level + 1 /\ starts_with(p, root_path) })
        root_files ==
            IF root_path \in KeysAfterDirLoop(iter, dir_sizes, root_path)
            THEN DirContents(iter, root_path) ELSE << >>
        root_children ==
            Truncate(SortBySizeDesc(
                SubdirNodes(immediate_subdirs, iter, dir_sizes, root_path) \o root_files),
                ChildCap)
    IN  FileNode(TreeRootName(root_text), root_text, total_size, TRUE,
                 SomeUnlessEmpty(root_children))

(***************************************************************************)
(* State                                                                   *)
(***************************************************************************)
\* the concurrent invocations of the scan_path command
Procs == { "A", "B" }

VARIABLES
    platform,   \* cfg!(target_os = "macos"): "macos" or "other", fixed per build
    slot,       \* GLOBAL_SCAN_STATE: 0 for None, else the token registered last
    flag,       \* the AtomicBool of every token
    ntok,       \* number of scan_directory calls so far; tokens are 1..ntok
    cache,      \* FILE_CACHE: Vec<CachedFile>
    scans,      \* per invocation: the locals of its scan_directory call
    lastQuery,  \* the answer to the last direct query of the cache since the last add
    timing,     \* "quick": less than emit_interval passes between two emissions of a
                \* scan (and since ScanState::new); "slow": at least emit_interval
    cache_guard, \* the invocation holding the MutexGuard of FILE_CACHE, or "none"
    adds        \* history: the batches pushed onto the cache, in the order of the pushes

vars == << platform, slot, flag, ntok, cache, scans, lastQuery, timing, cache_guard, adds >>

NoTree == FileNode(<< >>, << >>, 0, FALSE, NoChildren)

NoResult == [ kind |-> "none", tree |-> NoTree, err |-> "" ]
Ok(tree) == [ kind |-> "ok", tree |-> tree, err |-> "" ]
Err(msg) == [ kind |-> "err", tree |-> NoTree, err |-> msg ]

\* the events a scan emits through the app handle, and, in the same log, the
\* external commands it launches
\* ScanState::should_emit: last_emit.elapsed() >= emit_interval
should_emit == timing = "slow"

\* ScanState::emit; due records what should_emit() would have answered at the
\* moment of the emission
Progress(msg, n, items) ==
    [ kind |-> "scan-progress", msg |-> msg, n |-> n, items |-> items, tree |-> NoTree,
      due |-> should_emit ]
Intermediate(tree) ==
    [ kind |-> "scan-intermediate", msg |-> "", n |-> 0, items |-> 0, tree |-> tree,
      due |-> FALSE ]
Command(name, n) ==
    [ kind |-> "command", msg |-> name, n |-> n, items |-> 0, tree |-> NoTree,
      due |-> FALSE ]

KeepFlag(old) == old

\* ScanState::new: the flag of a new token, whatever the flag in the slot is
NewFlag(old) == FALSE

\* no query of the cache answered since the last add_files_to_cache
NoQuery == [ some |-> FALSE, target |-> << >>, files |-> EmptyMap ]

\* the locals of an invocation that is not inside scan_directory
IdleScan ==
    [ pc |-> "idle", token |-> 0, root_text |-> << >>,
      all_files |-> EmptyMap, directory_sizes |-> EmptyMap, pass_idx |-> 0,
      stdout |-> << >>, line_idx |-> 0, children |-> << >>, total_size |-> 0,
      items_processed |-> 0, result |-> NoResult, events |-> << >>,
      outs |-> << >>, seed |-> EmptyMap, seeded |-> FALSE, merged |-> FALSE,
      status |-> "none" ]

Init ==
    /\ platform \in { "macos", "other" }
    /\ slot = 0
    /\ flag = [ t \in 1..MaxScans |-> FALSE ]
    /\ ntok = 0
    /\ cache = << >>
    /\ scans = [ s \in Procs |-> IdleScan ]
    /\ lastQuery = NoQuery
    /\ timing \in { "quick", "slow" }
    /\ cache_guard = "none"
    /\ adds = << >>

Running(s) == scans[s].pc \notin { "idle", "done" }

\* the path scan_directory scans: "~" stands for HOME
ScanPath(path_text) == IF path_text = << "~" >> THEN HomeText ELSE path_text

RootPath(s) == PathFromText(scans[s].root_text)

(***************************************************************************)
(* scan_directory: registration and return                                 *)
(***************************************************************************)
\* scan_directory up to the call of scan_directory_smart, and the first lines
\* of scan_directory_smart: a new ScanState, its flag stored in the global
\* slot in place of the one there, the scanner chosen by platform
ScanDirectory(s, path_text) ==
    /\ scans[s].pc = "idle"
    /\ ntok < MaxScans
    /\ ntok' = ntok + 1
    /\ slot' = ntok + 1
    /\ scans' = [ scans EXCEPT ![s] =
                    [ IdleScan EXCEPT
                        !.pc = IF platform = "macos" THEN "seed" ELSE "du_start",
                        !.token = ntok + 1,
                        !.root_text = ScanPath(path_text) ] ]
    /\ flag' = [ flag EXCEPT ![ntok + 1] = NewFlag(IF slot = 0 THEN FALSE ELSE flag[slot]) ]
    /\ UNCHANGED << platform, cache >>

\* scan_directory returns its result to the caller (line 172); its ScanState
\* is dropped
Return(s) ==
    /\ scans[s].pc = "done"
    /\ scans' = [ scans EXCEPT ![s] = IdleScan ]
    /\ UNCHANGED << platform, slot, flag, ntok, cache >>

(***************************************************************************)
(* cancel_scan                                                             *)
(***************************************************************************)
CancelEvery(sl, fl) == [ t \in DOMAIN fl |-> TRUE ]

CancelToggle(sl, fl) == IF sl = 0 THEN fl ELSE [ fl EXCEPT ![sl] = ~fl[sl] ]

\* the flags after cancel_scan: the flag of the registered token is stored true
cancel_scan(sl, fl) == IF sl = 0 THEN fl ELSE [ fl EXCEPT ![sl] = TRUE ]

CancelScan ==
    /\ flag' = cancel_scan(slot, flag)
    /\ UNCHANGED << platform, slot, ntok, cache, scans >>

NeverCancelled(s) == FALSE

\* ScanState::is_cancelled of the scan's own token
is_cancelled(s) == flag[scans[s].token]

(***************************************************************************)
(* The indexed scanner: scan_directory_with_mdfind                         *)
(***************************************************************************)
\* *dirs.entry(dir).or_insert(0) += size
AddSize(dirs, dir, size) ==
    MapInsert(dirs, dir, (IF dir \in DOMAIN dirs THEN dirs[dir] ELSE 0) + size)

AddToParentOnly(dirs, ancestors, size, root_path) ==
    IF ancestors # << >> /\ starts_with(Head(ancestors), root_path)
    THEN AddSize(dirs, Head(ancestors), size) ELSE dirs

RECURSIVE AddToAllAncestors(_, _, _, _)
AddToAllAncestors(dirs, ancestors, size, root_path) ==
    IF ancestors = << >> THEN dirs
    ELSE AddToAllAncestors(AddSize(dirs, Head(ancestors), size),
                           Tail(ancestors), size, root_path)

\* the while-let loop over file_path.parent(), dir.parent(), ...: the size is
\* added to every ancestor that starts with the root
RECURSIVE AddToDirs(_, _, _, _)
AddToDirs(dirs, ancestors, size, root_path) ==
    IF ancestors = << >> THEN dirs
    ELSE AddToDirs(IF starts_with(Head(ancestors), root_path)
                   THEN AddSize(dirs, Head(ancestors), size) ELSE dirs,
                   Tail(ancestors), size, root_path)

\* cached_tree_dirs of the cached preview, iter an iteration of cached_files
RECURSIVE CachedTreeDirs(_, _)
CachedTreeDirs(iter, root_path) ==
    IF iter = << >> THEN EmptyMap
    ELSE AddToDirs(CachedTreeDirs(Tail(iter), root_path),
                   Ancestors(Head(iter).path), Head(iter).size, root_path)

MergeLineNoDedupe(acc, line, root_path) ==
    LET space_idx == Find(line, " ")
        size == ParseU64(SubSeq(line, 1, space_idx - 1))
        file_path == Trim(SubSeq(line, space_idx, Len(line)))
        file_path_buf == PathFromText(file_path)
    IN  IF space_idx = 0 \/ size < 0 THEN acc
        ELSE IF ~(IsAbsText(file_path) /\ starts_with(file_path_buf, root_path)) THEN acc
        ELSE [ files |-> MapInsert(acc.files, file_path_buf, size),
               dirs |-> AddToDirs(acc.dirs, Ancestors(file_path_buf), size, root_path) ]

\* the body of "for line in stdout.lines()" for one line, on
\* acc = [files, dirs] (all_files, directory_sizes)
MergeLine(acc, line, root_path) ==
    LET space_idx == Find(line, " ")
        size_str == SubSeq(line, 1, space_idx - 1)
        file_path == Trim(SubSeq(line, space_idx, Len(line)))
        size == ParseU64(size_str)
        file_path_buf == PathFromText(file_path)
    IN  IF space_idx = 0 \/ size < 0 THEN acc
        ELSE IF ~(IsAbsText(file_path) /\ starts_with(file_path_buf, root_path)) THEN acc
        ELSE IF file_path_buf \in DOMAIN acc.files THEN acc
        ELSE [ files |-> MapInsert(acc.files, file_path_buf, size),
               dirs |-> AddToDirs(acc.dirs, Ancestors(file_path_buf), size, root_path) ]

RECURSIVE MergeUntilMalformed(_, _, _)
MergeUntilMalformed(acc, lines, root_path) ==
    IF lines = << >> THEN acc
    ELSE IF Find(Head(lines), " ") = 0 THEN acc
    ELSE MergeUntilMalformed(MergeLine(acc, Head(lines), root_path), Tail(lines), root_path)

\* for line in stdout.lines() (571-599)
RECURSIVE MergeLines(_, _, _)
MergeLines(acc, lines, root_path) ==
    IF lines = << >> THEN acc
    ELSE MergeLines(MergeLine(acc, Head(lines), root_path), Tail(lines), root_path)

SeedAll(cached_files) == cached_files

\* the files of the preview tree of the cache seeding: none of them enters
\* all_files
SeedFiles(cached_files) == EmptyMap

\* lines 510-539: the cache is queried; when it has entries below the root a
\* tree is built from them alone and emitted as a preview
MdfindSeed(s) ==
    /\ scans[s].pc = "seed"
    /\ LET root_path == RootPath(s)
           cached_files == get_cached_files_for_directory(cache, root_path)
       IN  \E iter \in IterOrders(cached_files) :
             scans' = [ scans EXCEPT ![s] =
                 [ @ EXCEPT !.pc = "pass",
                            !.seed = cached_files,
                            !.seeded = TRUE,
                            !.all_files = SeedFiles(cached_files),
                            !.events =
                                IF cached_files = EmptyMap THEN @
                                ELSE Append(@, Intermediate(
                                        build_tree_from_files(iter,
                                            CachedTreeDirs(iter, root_path),
                                            scans[s].root_text))) ] ]
    /\ UNCHANGED << platform, slot, flag, ntok, cache >>

\* ExitStatus::success() of a command that was launched
ExitStatuses == { "success", "failure" }

\* the pipeline of every pass for every root, evaluated once
PassTable ==
    [ r \in { PathFromText(ScanPath(t)) : t \in RootTexts } |->
        [ k \in 1..NumPasses |-> MdfindOutputs(r, size_thresholds[k]) ] ]

\* the outputs the pipeline of pass k may produce for a root
PassOutputs(root_path, k) == PassTable[root_path][k]

PreviewAtMin(count) == count >= PreviewMin

\* line 612: all_files.len() > 10
EmitsPreview(count) == count > PreviewMin

CommandFirst(k, items) ==
    << Command("mdfind", k), Progress("mdfind pass", k, items) >>

\* lines 550-563: the pass's progress event, then the pipeline is launched
PassStartEvents(k, items) ==
    << Progress("mdfind pass", k, items), Command("mdfind", k) >>

\* one iteration of the loop over size_thresholds (lines 543-623), outputs the
\* set of outputs the pipeline may produce
MdfindPassWith(s, outputs) ==
    /\ scans[s].pc = "pass"
    /\ LET sc == scans[s]
           k == sc.pass_idx + 1
           root_path == RootPath(s)
           launched == sc.events \o PassStartEvents(k, sc.items_processed)
       IN  IF is_cancelled(s)
           THEN scans' = [ scans EXCEPT ![s] =
                    [ @ EXCEPT !.pc = "done", !.result = Err("Scan cancelled") ] ]
           ELSE \/ \* Command::output() fails to launch the shell
                   scans' = [ scans EXCEPT ![s] =
                      [ @ EXCEPT !.pc = "done",
                                 !.events = launched,
                                 !.result = Err("Failed to execute mdfind") ] ]
                \/ \E out \in outputs, status \in ExitStatuses :
                     LET acc == MergeLines([ files |-> sc.all_files,
                                             dirs |-> sc.directory_sizes ], out, root_path)
                         count == Cardinality(DOMAIN acc.files)
                         counted == Append(launched, Progress("mdfind: found", k, count))
                     IN  \E iter \in IterOrders(acc.files) :
                           scans' = [ scans EXCEPT ![s] =
                             [ @ EXCEPT !.pc = IF k = NumPasses THEN "finish" ELSE "pass",
                                        !.pass_idx = k,
                                        !.status = status,
                                        !.all_files = acc.files,
                                        !.directory_sizes = acc.dirs,
                                        !.items_processed = count,
                                        !.outs = Append(@, out),
                                        !.events =
                                            IF EmitsPreview(count)
                                            THEN Append(counted, Intermediate(
                                                    build_tree_from_files(iter, acc.dirs,
                                                                          sc.root_text)))
                                            ELSE counted ] ]
    /\ UNCHANGED << platform, slot, flag, ntok, cache >>

\* a pass with the pipeline reading the file system
MdfindPass(s) == MdfindPassWith(s, PassOutputs(RootPath(s), scans[s].pass_idx + 1))

MdfindFinishLateCheck(s) ==
    /\ scans[s].pc = "finish"
    /\ LET sc == scans[s]
       IN  \E iter \in IterOrders(sc.all_files) :
             /\ cache' = add_files_to_cache(cache, iter)
             /\ scans' = [ scans EXCEPT ![s] =
                   [ @ EXCEPT !.pc = "done",
                              !.merged = TRUE,
                              !.events = Append(@, Progress("mdfind complete", 0,
                                                            sc.items_processed)),
                              !.result =
                                  IF is_cancelled(s) THEN Err("Scan cancelled")
                                  ELSE Ok(build_tree_from_files(iter, sc.directory_sizes,
                                                                sc.root_text)) ] ]
    /\ UNCHANGED << platform, slot, flag, ntok >>

\* lines 625-632: the final progress event, the cache update, the final tree
MdfindFinish(s) ==
    /\ scans[s].pc = "finish"
    /\ LET sc == scans[s]
       IN  \E iter \in IterOrders(sc.all_files) :
             /\ cache' = add_files_to_cache(cache, iter)
             /\ scans' = [ scans EXCEPT ![s] =
                   [ @ EXCEPT !.pc = "done",
                              !.merged = TRUE,
                              !.events = Append(@, Progress("mdfind complete", 0,
                                                            sc.items_processed)),
                              !.result = Ok(build_tree_from_files(iter, sc.directory_sizes,
                                                                  sc.root_text)) ] ]
    /\ UNCHANGED << platform, slot, flag, ntok >>

(***************************************************************************)
(* The fallback scanner: scan_directory_with_du                            *)
(***************************************************************************)
\* what the du pipeline may print: its output, or nothing when du fails (its
\* stderr is discarded); evaluated once for every root
DuTable ==
    [ r \in { PathFromText(ScanPath(t)) : t \in RootTexts } |-> { DuOutput(r), << >> } ]

DuOutputs(root_path) == DuTable[root_path]

\* output.stdout and output.status of the du pipeline: a pipeline that exits
\* with a non-success status (cd failed) has printed nothing
DuResults(root_path) ==
    { [ stdout |-> o, status |-> "success" ] : o \in DuOutputs(root_path) }
        \cup { [ stdout |-> << >>, status |-> "failure" ] }

\* the children pre-seeded from the cache (lines 813-826), iter an iteration of
\* cached_files
RECURSIVE CachedChildren(_)
CachedChildren(iter) ==
    IF iter = << >> THEN << >>
    ELSE (IF HasFileName(Head(iter).path)
          THEN << FileNode(file_name(Head(iter).path), PathText(Head(iter).path),
                           Head(iter).size, is_dir(Head(iter).path), NoChildren) >>
          ELSE << >>) \o CachedChildren(Tail(iter))

\* the children the fallback scanner starts from, given the cache query
SeedChildren(iter) == CachedChildren(iter)

\* scan_directory_smart's progress event and lines 791-826 of
\* scan_directory_with_du: the du pipeline runs, then the cache is queried;
\* results the set of [stdout, status] the pipeline may give
DuStartWith(s, results) ==
    /\ scans[s].pc = "du_start"
    /\ LET sc == scans[s]
           root_path == RootPath(s)
           launched == << Progress("Starting detailed du scan", 0, sc.items_processed),
                          Command("du", 0) >>
           cached_files == get_cached_files_for_directory(cache, root_path)
       IN  \/ scans' = [ scans EXCEPT ![s] =
                 [ @ EXCEPT !.pc = "done",
                            !.events = launched,
                            !.result = Err("Failed to execute du") ] ]
           \/ \E output \in results, iter \in IterOrders(cached_files) :
                scans' = [ scans EXCEPT ![s] =
                  [ @ EXCEPT !.pc = "du_lines",
                             !.events = launched,
                             !.status = output.status,
                             !.stdout = output.stdout,
                             !.outs = << output.stdout >>,
                             !.seed = cached_files,
                             !.seeded = TRUE,
                             !.children = SeedChildren(iter),
                             !.total_size = SumSizes(SeedChildren(iter)) ] ]
    /\ UNCHANGED << platform, slot, flag, ntok, cache >>

\* the start with the du pipeline reading the file system
DuStart(s) == DuStartWith(s, DuResults(RootPath(s)))

\* a line of the du output is used when it is not blank, has two fields or
\* more and its first field parses as u64 (838-846)
DuLineUsed(line) ==
    /\ Trim(line) # << >>
    /\ Len(SplitWhitespace(line)) >= 2
    /\ ParseU64(SplitWhitespace(line)[1]) >= 0

\* the child made from a line that is used (845-873)
DuChild(root_path, line) ==
    LET parts == SplitWhitespace(line)
        size_kb == ParseU64(parts[1])
        name == JoinSpace(Tail(parts))
        full_path == Join(root_path, name)
    IN  FileNode(name, PathText(full_path), size_kb * 1024, is_dir(full_path), NoChildren)

\* one iteration of "for (idx, line) in lines.iter().enumerate()" (832-876)
DuLineStep(s) ==
    /\ scans[s].pc = "du_lines"
    /\ scans[s].line_idx < Len(scans[s].stdout)
    /\ LET sc == scans[s]
           idx == sc.line_idx
           line == sc.stdout[idx + 1]
           child == DuChild(RootPath(s), line)
           size == child.size
       IN  IF is_cancelled(s)
           THEN scans' = [ scans EXCEPT ![s] =
                    [ @ EXCEPT !.pc = "done", !.result = Err("Scan cancelled") ] ]
           ELSE IF ~DuLineUsed(line)
           THEN scans' = [ scans EXCEPT ![s] = [ @ EXCEPT !.line_idx = idx + 1 ] ]
           ELSE scans' = [ scans EXCEPT ![s] =
                    [ @ EXCEPT !.line_idx = idx + 1,
                               !.items_processed = IF idx % 5 = 0 THEN @ + 1 ELSE @,
                               !.events =
                                   IF idx % 5 = 0
                                   THEN Append(@, Progress("du scan", idx + 1,
                                                           sc.items_processed + 1))
                                   ELSE @,
                               !.children = Append(@, child),
                               !.total_size = @ + size ] ]
    /\ UNCHANGED << platform, slot, flag, ntok, cache >>

\* the direct enumeration (884-917) over the entries of read_dir in the order
\* given; timed holds the indexes at which should_emit() finds the interval
\* elapsed; acc = [children, total, items, events]
RECURSIVE ListEntries(_, _, _, _)
ListEntries(acc, entries, idx, timed) ==
    IF entries = << >> THEN acc
    ELSE LET e == Head(entries)
             size == IF e.is_dir THEN DirPlaceholder ELSE e.len
             child == FileNode(e.name, PathText(e.path), size, e.is_dir, NoChildren)
             pushed == Append(acc.children, child)
         IN  ListEntries(
                 IF e.name[1] = "." THEN acc
                 ELSE [ children |-> pushed,
                        total |-> acc.total + size,
                        items |-> acc.items + 1,
                        events |-> IF idx % 5 = 0 \/ idx \in timed
                                   THEN Append(acc.events,
                                               Progress("du fallback", Len(pushed),
                                                        acc.items + 1))
                                   ELSE acc.events ],
                 Tail(entries), idx + 1, timed)

\* the name of the root node of the fallback scanner: the path is compared
\* with HOME as a path
DuRootName(root_text) ==
    IF root_text = << "/" >> THEN RootName
    ELSE IF PathFromText(root_text) = PathFromText(HomeText) THEN HomeName
    ELSE IF HasFileName(PathFromText(root_text)) THEN file_name(PathFromText(root_text))
    ELSE root_text

RetainOnly(sorted) ==
    IF Len(sorted) > FilterCount THEN RetainSignificant(sorted) ELSE sorted

\* lines 923-928: with more than 50 children, sorted, drop the small files and
\* keep 100
FilterSmall(sorted) ==
    IF Len(sorted) > FilterCount
    THEN Truncate(RetainSignificant(sorted), ChildCap)
    ELSE sorted

SortOnly(children) == SortBySizeDesc(children)

\* lines 920-928: sort by size, then filter
PostProcess(children) == FilterSmall(SortBySizeDesc(children))

\* lines 878-950, after the last line: the direct enumeration when there are
\* no children, the post-processing, the result; the children the scan ends
\* with are kept as sorted at line 921, the result has them filtered
DuFinish(s) ==
    /\ scans[s].pc = "du_lines"
    /\ scans[s].line_idx = Len(scans[s].stdout)
    /\ LET sc == scans[s]
           entries == { [ name |-> e.name, is_dir |-> e.is_dir, len |-> e.len,
                          path |-> RootPath(s) \o << e.name >> ] : e \in ReadDir(RootPath(s)) }
           start == [ children |-> sc.children, total |-> sc.total_size,
                      items |-> sc.items_processed, events |-> sc.events ]
           timed == IF should_emit THEN 0..(Cardinality(entries) - 1) ELSE {}
       IN  \E order \in (IF sc.children = << >> THEN Perms(entries) ELSE { << >> }) :
             LET acc == ListEntries(start, order, 0, timed)
             IN  scans' = [ scans EXCEPT ![s] =
                       [ @ EXCEPT !.pc = "done",
                                  !.children = SortBySizeDesc(acc.children),
                                  !.total_size = acc.total,
                                  !.items_processed = acc.items,
                                  !.events = acc.events,
                                  !.result = Ok(FileNode(DuRootName(sc.root_text),
                                                         sc.root_text, acc.total, TRUE,
                                                         SomeUnlessEmpty(
                                                             PostProcess(acc.children)))) ] ]
    /\ UNCHANGED << platform, slot, flag, ntok, cache >>

(***************************************************************************)
(* Specifications                                                          *)
(***************************************************************************)
\* the steps of the scan of invocation s after its registration
ScanStep(s) ==
    \/ MdfindSeed(s)
    \/ MdfindPass(s)
    \/ MdfindFinish(s)
    \/ DuStart(s)
    \/ DuLineStep(s)
    \/ DuFinish(s)
    \/ Return(s)

\* Single-scan-at-a-time use: one invocation scans again and again, cancel_scan
\* may be called at any moment
Next ==
    /\ \/ \E t \in RootTexts : ScanDirectory("A", t)
       \/ ScanStep("A")
       \/ CancelScan
    /\ UNCHANGED << lastQuery, timing, cache_guard, adds >>

Spec == Init /\ [][Next]_vars

\* Overlapping use: invocation B calls scan_directory once, at any moment after
\* invocation A called it once
OverlapRoots == { << "/", "r", "/", "d" >>, << "/", "n" >> }

OverlapNext ==
    /\ \/ \E t \in OverlapRoots : ntok = 0 /\ ScanDirectory("A", t)
       \/ \E t \in OverlapRoots : ntok = 1 /\ ScanDirectory("B", t)
       \/ \E s \in Procs : ScanStep(s)
       \/ CancelScan
    /\ UNCHANGED << lastQuery, timing, cache_guard, adds >>

SpecOverlap == Init /\ [][OverlapNext]_vars

\* The cache alone: add_files_to_cache and get_cached_files_for_directory
\* called directly with arbitrary batches and targets
BatchPaths == { << <<"r">>, <<"d">>, <<"y">> >>, << <<"q">>, <<"v">> >> }
BatchSizes == { 5242880, 62914560 }

\* the batches: the HashMaps over paths of BatchPaths with sizes of BatchSizes
Batches ==
    UNION { [ D -> BatchSizes ] : D \in SUBSET BatchPaths }

RECURSIVE DrainMatches(_, _)
DrainMatches(c, target_path) ==
    IF c = << >> THEN << >>
    ELSE (IF starts_with(Head(c).path, target_path) THEN << >> ELSE << Head(c) >>)
         \o DrainMatches(Tail(c), target_path)

\* what get_cached_files_for_directory does to the cache it reads
QueryEffect(c, target_path) == c

AddCall(batch) ==
    /\ \E iter \in IterOrders(batch) : cache' = add_files_to_cache(cache, iter)
    /\ lastQuery' = NoQuery
    /\ UNCHANGED << platform, slot, flag, ntok, scans, timing, cache_guard, adds >>

QueryCall(target_text) ==
    /\ lastQuery' = [ some |-> TRUE, target |-> target_text,
                      files |-> get_cached_files_for_directory(
                                    cache, PathFromText(target_text)) ]
    /\ cache' = QueryEffect(cache, PathFromText(target_text))
    /\ UNCHANGED << platform, slot, flag, ntok, scans, timing, cache_guard, adds >>

CacheNext ==
    \/ \E batch \in Batches : AddCall(batch)
    \/ \E t \in RootTexts : QueryCall(t)

SpecCache == Init /\ [][CacheNext]_vars

\* The scanners started on any cache one add_files_to_cache call can leave
InitSeeded ==
    /\ platform \in { "macos", "other" }
    /\ slot = 0
    /\ flag = [ t \in 1..MaxScans |-> FALSE ]
    /\ ntok = 0
    /\ cache \in { add_files_to_cache(<< >>, iter) :
                     iter \in UNION { IterOrders(b) : b \in Batches } }
    /\ scans = [ s \in Procs |-> IdleScan ]
    /\ lastQuery = NoQuery
    /\ timing \in { "quick", "slow" }
    /\ cache_guard = "none"
    /\ adds = << >>

\* one scan on such a cache
SeededNext ==
    /\ \/ \E t \in RootTexts : ntok = 0 /\ ScanDirectory("A", t)
       \/ ScanStep("A")
       \/ CancelScan
    /\ UNCHANGED << lastQuery, timing, cache_guard, adds >>

SpecSeeded == InitSeeded /\ [][SeededNext]_vars

\* One scan with tools whose outputs have malformed lines between the lines
\* of the files (names with line breaks, stray output): lines without a
\* separator, with a single field, with a size that is no unsigned number,
\* and blank lines
BadStatLines ==
    << << "1", "2", "3" >>,
       << "a", "b", " ", "/", "r", "/", "x" >>,
       << "-", "5", " ", "/", "r", "/", "x" >>,
       << >> >>

BadDuLines ==
    << << "7" >>,
       << "a", "b", "\t", "x" >>,
       << "-", "5", "\t", "w" >>,
       << >>,
       << " " >> >>

\* the malformed lines before, between and after the lines of an output
RECURSIVE Garble(_, _)
Garble(out, bad) ==
    IF out = << >> THEN bad
    ELSE bad \o << Head(out) >> \o Garble(Tail(out), bad)

GarbledPass(s) ==
    MdfindPassWith(s, { Garble(out, BadStatLines) :
                          out \in PassOutputs(RootPath(s), scans[s].pass_idx + 1) })

GarbledDuStart(s) ==
    DuStartWith(s, { [ stdout |-> Garble(r.stdout, BadDuLines), status |-> r.status ] :
                       r \in DuResults(RootPath(s)) })

GarbledNext ==
    /\ \/ \E t \in RootTexts : ntok = 0 /\ ScanDirectory("A", t)
       \/ MdfindSeed("A")
       \/ GarbledPass("A")
       \/ MdfindFinish("A")
       \/ GarbledDuStart("A")
       \/ DuLineStep("A")
       \/ DuFinish("A")
       \/ Return("A")
    /\ UNCHANGED << lastQuery, timing, cache_guard, adds >>

SpecGarbled == Init /\ [][GarbledNext]_vars

\* The two cache functions called by overlapping invocations, step by step:
\* the lock, the pushes, the sort, the truncation and the release of the guard
\* at the end of the block
MaxAdds == 4

\* the batches of these calls: two files of different sizes, and one file
LockedBatches ==
    { ( << <<"r">>, <<"d">>, <<"y">> >> :> 62914560 ) @@ ( << <<"q">>, <<"v">> >> :> 5242880 ),
      ( << <<"q">>, <<"v">> >> :> 62914560 ) }

AddPcs == { "add_lock", "add_push", "add_sort", "add_truncate" }

LockAlways(s) == TRUE

\* cache.lock(): the Mutex is free
CanLock(s) == cache_guard = "none"

\* an invocation calls add_files_to_cache(files)
BeginAdd(s, files) ==
    /\ scans[s].pc = "idle"
    /\ Len(adds) + Cardinality({ p \in Procs : scans[p].pc \in AddPcs }) < MaxAdds
    /\ scans' = [ scans EXCEPT ![s] = [ IdleScan EXCEPT !.pc = "add_lock",
                                                         !.all_files = files ] ]
    /\ UNCHANGED << cache, cache_guard, adds, lastQuery >>

\* an invocation calls get_cached_files_for_directory(target_path)
BeginQuery(s, target_text) ==
    /\ scans[s].pc = "idle"
    /\ scans' = [ scans EXCEPT ![s] = [ IdleScan EXCEPT !.pc = "query_lock",
                                                         !.root_text = target_text ] ]
    /\ UNCHANGED << cache, cache_guard, adds, lastQuery >>

\* lines 96 and 118: if let Ok(guard) = cache.lock()
Lock(s) ==
    /\ scans[s].pc \in { "add_lock", "query_lock" }
    /\ CanLock(s)
    /\ cache_guard' = s
    /\ scans' = [ scans EXCEPT ![s].pc =
                    IF @ = "add_lock" THEN "add_push" ELSE "query_read" ]
    /\ UNCHANGED << cache, adds, lastQuery >>

\* lines 98-103: every entry of the batch is pushed
AddPush(s) ==
    /\ scans[s].pc = "add_push"
    /\ \E iter \in IterOrders(scans[s].all_files) :
         /\ cache' = cache \o iter
         /\ adds' = Append(adds, iter)
    /\ scans' = [ scans EXCEPT ![s].pc = "add_sort" ]
    /\ UNCHANGED << cache_guard, lastQuery >>

\* line 106
AddSort(s) ==
    /\ scans[s].pc = "add_sort"
    /\ cache' = SortBySizeDesc(cache)
    /\ scans' = [ scans EXCEPT ![s].pc = "add_truncate" ]
    /\ UNCHANGED << cache_guard, adds, lastQuery >>

\* lines 107-110: the truncation, then the guard is dropped
AddTruncate(s) ==
    /\ scans[s].pc = "add_truncate"
    /\ cache' = Truncate(cache, CacheCap)
    /\ cache_guard' = "none"
    /\ scans' = [ scans EXCEPT ![s] = IdleScan ]
    /\ UNCHANGED << adds, lastQuery >>

\* lines 119-124: the entries below the target are collected, then the guard
\* is dropped
QueryRead(s) ==
    /\ scans[s].pc = "query_read"
    /\ LET relevant_files == get_cached_files_for_directory(cache, RootPath(s))
       IN  /\ scans' = [ scans EXCEPT ![s] = [ IdleScan EXCEPT !.seed = relevant_files ] ]
           /\ lastQuery' = [ some |-> TRUE, target |-> scans[s].root_text,
                             files |-> relevant_files ]
    /\ cache_guard' = "none"
    /\ UNCHANGED << cache, adds >>

LockedNext ==
    /\ \/ \E s \in Procs, files \in LockedBatches : BeginAdd(s, files)
       \/ \E s \in Procs, t \in OverlapRoots : BeginQuery(s, t)
       \/ \E s \in Procs : Lock(s)
       \/ \E s \in Procs : AddPush(s)
       \/ \E s \in Procs : AddSort(s)
       \/ \E s \in Procs : AddTruncate(s)
       \/ \E s \in Procs : QueryRead(s)
    /\ UNCHANGED << platform, slot, flag, ntok, timing >>

SpecLocked == Init /\ [][LockedNext]_vars

(***************************************************************************)
(* Properties                                                              *)
(***************************************************************************)
\* C1: after any sequence of add_files_to_cache calls with arbitrary batches,
\* starting from the empty cache, the cache holds at most its capacity of
\* entries (1000 in the code, CacheCap here) and they are in non-increasing
\* order of size
CacheBoundedSorted ==
    /\ Len(cache) <= CacheCap
    /\ \A i \in 1..(Len(cache) - 1) : cache[i].size >= cache[i + 1].size

\* a full cache holding entries of both sizes, one path at several places
CacheFullWitness ==
    /\ Len(cache) = CacheCap
    /\ cache[1].size > cache[CacheCap].size
    /\ \E i, j \in 1..CacheCap : i < j /\ cache[i].path = cache[j].path

\* C2: a scan whose own flag is set when it reaches a cancellation checkpoint
\* (the start of an indexed-search pass, a line of the du output) returns the
\* error "Scan cancelled" and no tree there, launching no command and emitting
\* nothing; and cancel_scan called while the registered scan is in progress
\* sets that scan's flag, which stays set as long as the scan runs
AtCheckpoint(s) ==
    \/ scans[s].pc = "pass"
    \/ scans[s].pc = "du_lines" /\ scans[s].line_idx < Len(scans[s].stdout)

CancelledAtNextCheckpoint ==
    [][ \A s \in Procs :
          /\ (AtCheckpoint(s) /\ flag[scans[s].token] /\ scans'[s] # scans[s])
                => /\ scans'[s].pc = "done"
                   /\ scans'[s].result = Err("Scan cancelled")
                   /\ scans'[s].result.tree = NoTree
                   /\ scans'[s].events = scans[s].events
          /\ (Running(s) /\ slot = scans[s].token /\ CancelScan)
                => flag'[scans[s].token]
          /\ (Running(s) /\ Running(s)' /\ flag[scans[s].token])
                => flag'[scans'[s].token] ]_vars

\* a scan cancelled at the start of a later pass, after it launched a command
CancelledInPassWitness ==
    /\ scans["A"].pc = "done"
    /\ scans["A"].result = Err("Scan cancelled")
    /\ scans["A"].pass_idx >= 1
    /\ scans["A"].events # << >>

\* C3: every call of scan_directory creates a new token whose flag is false
\* and stores it in the slot in place of the token that was there; a flag is
\* only ever set by a cancel_scan made while its token is in the slot, so a
\* cancel made before a scan registers never cancels that scan
FreshTokenOnRegistration ==
    [][ /\ (ntok' # ntok)
            => /\ slot' = ntok'
               /\ slot' # slot
               /\ ~flag'[slot']
               /\ \A t \in 1..ntok : flag'[t] = flag[t]
        /\ \A t \in 1..MaxScans :
             (flag'[t] /\ ~flag[t]) => (slot = t /\ slot' = t /\ ntok' = ntok) ]_vars

\* a second scan that registered after a cancel of the first and returned a tree
UncancelledAfterEarlierCancelWitness ==
    /\ ntok = 2
    /\ flag[1]
    /\ ~flag[2]
    /\ scans["A"].token = 2
    /\ scans["A"].result.kind = "ok"

\* C4: once scan B has registered while scan A is still running, a cancel_scan
\* sets the flag of B's token only: the flag of the superseded scan A is never
\* set again, and A does not return "Scan cancelled" unless its flag was set
\* before
Superseded(s) == Running(s) /\ slot # scans[s].token

CancelIdempotent ==
    [][ CancelScan
          => /\ cancel_scan(slot', flag') = flag'
             /\ slot' = slot
             /\ cache' = cache
             /\ (ntok = 0 => flag' = flag) ]_vars

\* a running scan whose flag a cancel has set, with a cache that has entries
CancelledOnceWitness ==
    /\ slot # 0
    /\ flag[slot]
    /\ Running("A")
    /\ slot = scans["A"].token
    /\ cache # << >>

\* C6: a query of the cache leaves the cache as it is, and a query with the
\* target of the previous query, no add_files_to_cache in between, gets the
\* same map
QueryPure ==
    [][ /\ lastQuery'.some => cache' = cache
        /\ (lastQuery.some /\ lastQuery'.some /\ lastQuery'.target = lastQuery.target)
              => lastQuery'.files = lastQuery.files ]_vars

\* a query answered with some of the entries of the cache, not all
QueryAnsweredWitness ==
    /\ lastQuery.some
    /\ lastQuery.files # EmptyMap
    /\ \E i \in 1..Len(cache) : cache[i].path \notin DOMAIN lastQuery.files

\* C7: the tree a scan returns does not depend on the cache: it is one of the
\* trees the scanner of the build computes for that root from the same tool
\* outputs when the cache is empty
RECURSIVE MergeOutputs(_, _, _)
MergeOutputs(acc, outputs, root_path) ==
    IF outputs = << >> THEN acc
    ELSE MergeOutputs(MergeLines(acc, Head(outputs), root_path), Tail(outputs), root_path)

ColdMdfindTrees(root_text, outputs) ==
    LET acc == MergeOutputs([ files |-> EmptyMap, dirs |-> EmptyMap ], outputs,
                            PathFromText(root_text))
    IN  { build_tree_from_files(iter, acc.dirs, root_text) : iter \in IterOrders(acc.files) }

RECURSIVE ColdDuChildren(_, _)
ColdDuChildren(root_path, lines) ==
    IF lines = << >> THEN << >>
    ELSE (IF DuLineUsed(Head(lines)) THEN << DuChild(root_path, Head(lines)) >> ELSE << >>)
         \o ColdDuChildren(root_path, Tail(lines))

ColdDuTree(root_text, children) ==
    FileNode(DuRootName(root_text), root_text, SumSizes(children), TRUE,
             SomeUnlessEmpty(PostProcess(children)))

ColdDuTrees(root_text, out) ==
    LET root_path == PathFromText(root_text)
        from_du == ColdDuChildren(root_path, out)
        entries == { [ name |-> e.name, is_dir |-> e.is_dir, len |-> e.len,
                       path |-> root_path \o << e.name >> ] : e \in ReadDir(root_path) }
        start == [ children |-> << >>, total |-> 0, items |-> 0, events |-> << >> ]
    IN  IF from_du # << >> THEN { ColdDuTree(root_text, from_du) }
        ELSE { ColdDuTree(root_text, ListEntries(start, order, 0, {}).children) :
                 order \in Perms(entries) }

ChildSum(T) == IF T.children.some THEN SumSizes(T.children.list) ELSE 0

RECURSIVE WellSized(_)
WellSized(T) ==
    /\ T.size >= 0
    /\ ChildSum(T) <= T.size
    /\ T.children.some => \A i \in 1..Len(T.children.list) : WellSized(T.children.list[i])

NumChildren(T) == IF T.children.some THEN Len(T.children.list) ELSE 0

\* the number of nodes build_tree_from_files has for the root before the cap
RootCandidates(files, dir_sizes, root_path) ==
    Cardinality({ d \in DOMAIN dir_sizes :
                    /\ Len(d) = Len(root_path) + 1
                    /\ starts_with(d, root_path)
                    /\ dir_sizes[d] > 0 })
    + Cardinality({ f \in DOMAIN files : HasParent(f) /\ Parent(f) = root_path })

PreviewTrees(s) ==
    { scans[s].events[i].tree :
        i \in { j \in 1..Len(scans[s].events) :
                  scans[s].events[j].kind = "scan-intermediate" } }

ChildrenWithinParent ==
    \A s \in Procs :
      /\ \A T \in PreviewTrees(s) :
           /\ WellSized(T)
           /\ NumChildren(T) < ChildCap => ChildSum(T) = T.size
      /\ (scans[s].pc = "done" /\ scans[s].result.kind = "ok")
           => LET T == scans[s].result.tree
              IN  /\ WellSized(T)
                  /\ (platform = "macos"
                      /\ RootCandidates(scans[s].all_files, scans[s].directory_sizes,
                                        RootPath(s)) <= ChildCap)
                        => ChildSum(T) = T.size
                  /\ (platform # "macos" /\ NumChildren(T) = Len(scans[s].children))
                        => ChildSum(T) = T.size

\* a scan that emitted a preview whose children add up to its size and
\* returned a tree that lost children to the cap
TruncatedTreeWitness ==
    /\ scans["A"].pc = "done"
    /\ scans["A"].result.kind = "ok"
    /\ NumChildren(scans["A"].result.tree) = ChildCap
    /\ ChildSum(scans["A"].result.tree) < scans["A"].result.tree.size
    /\ \E T \in PreviewTrees("A") :
         NumChildren(T) > 0 /\ NumChildren(T) < ChildCap /\ ChildSum(T) = T.size

\* C9: a scan that returns a tree has merged the files it discovered into the
\* cache before it returns, whichever scanner ran
SuccessfulScanRefreshesCache ==
    \A s \in Procs :
      (scans[s].pc = "done" /\ scans[s].result.kind = "ok") => scans[s].merged

\* C10: the index reports every file below the root larger than the threshold
\* of the pass; when the caps of the pipeline cut nothing off, the file map
\* after pass k is exactly the files below the root larger than threshold k, so
\* the files of 150MB and 60MB are in it after pass 2; the root of the returned
\* tree has the sum of the files larger than the last threshold as its size,
\* and every directory size counts these files only
CapsNotReached(root_path, k) ==
    Cardinality(IndexHits(root_path, size_thresholds[k])) <= MergeCap

FilesAbove(root_path, k) ==
    [ f \in IndexHits(root_path, size_thresholds[k]) |-> Files[f] ]

PassMapExact ==
    \A s \in Procs :
      LET sc == scans[s]
          k == sc.pass_idx
          root_path == RootPath(s)
      IN  (platform = "macos" /\ k >= 1 /\ CapsNotReached(root_path, k))
            => /\ sc.all_files = FilesAbove(root_path, k)
               /\ \A d \in DOMAIN sc.directory_sizes :
                    sc.directory_sizes[d] =
                      SumOver(Files, { f \in IndexHits(root_path, size_thresholds[k]) :
                                         Len(d) < Len(f) /\ starts_with(f, d) })
               /\ (k >= 2 /\ sc.root_text = HomeText)
                    => { << <<"r">>, <<"x">> >>, << <<"r">>, <<"d">>, <<"y">> >> }
                          \subseteq DOMAIN sc.all_files
               /\ (sc.pc = "done" /\ sc.result.kind = "ok")
                    => sc.result.tree.size =
                         SumOver(Files, IndexHits(root_path, size_thresholds[NumPasses]))

\* the scan of the home directory returned: more than 210MB, the file of
\* exactly 5MB below the root not in the map
ScenarioWitness ==
    /\ scans["A"].pc = "done"
    /\ scans["A"].result.kind = "ok"
    /\ scans["A"].root_text = HomeText
    /\ scans["A"].pass_idx = NumPasses
    /\ scans["A"].result.tree.size >= 220200960
    /\ << <<"r">>, <<"d">>, <<"t">> >> \notin DOMAIN scans["A"].all_files
    /\ scans["A"].seed # EmptyMap

\* C11: within one scan every "scan-progress" event after the first is emitted
\* when at least the emit interval has passed since the previous emission
ProgressEvents(s) ==
    { i \in 1..Len(scans[s].events) : scans[s].events[i].kind = "scan-progress" }

ProgressRateLimited ==
    \A s \in Procs :
      \A i, j \in ProgressEvents(s) : i < j => scans[s].events[j].due

\* C12: when a required external command could not be launched or exited with
\* a non-success status, the scan ends with an error and no tree
ToolFailureAborts ==
    \A s \in Procs :
      /\ scans[s].status = "failure"
            => (scans[s].pc = "done" /\ scans[s].result.kind = "err")
      /\ (scans[s].pc = "done" /\ scans[s].result.kind = "ok")
            => scans[s].status # "failure"

\* C13: a scan of a root whose metadata cannot be read emits no event, launches
\* no command and returns an error
MetadataReadable(p) == p = << >> \/ p \in DOMAIN Files \/ is_dir(p)

UnreadableRootFailsFirst ==
    \A s \in Procs :
      (scans[s].pc # "idle" /\ ~MetadataReadable(RootPath(s)))
         => /\ scans[s].events = << >>
            /\ scans[s].pc = "done" => scans[s].result.kind = "err"

\* C14: in every tree the tree builder produces (previews and results) and in
\* every tree the fallback scanner returns, the children of the root are in
\* non-increasing order of size and are at most the cap (100 in the code,
\* ChildCap here)
ScanTrees(s) ==
    PreviewTrees(s) \cup
        (IF scans[s].pc = "done" /\ scans[s].result.kind = "ok"
         THEN { scans[s].result.tree } ELSE {})

RootChildrenSortedCapped ==
    \A s \in Procs :
      \A T \in ScanTrees(s) :
        /\ NumChildren(T) <= ChildCap
        /\ \A i \in 1..(NumChildren(T) - 1) :
             T.children.list[i].size >= T.children.list[i + 1].size

\* a fallback scan with cached children that had more children than the cap
\* before the filter and returned exactly the cap, of different sizes
CappedFallbackWitness ==
    /\ platform # "macos"
    /\ scans["A"].pc = "done"
    /\ scans["A"].result.kind = "ok"
    /\ scans["A"].seed # EmptyMap
    /\ Len(scans["A"].children) > ChildCap
    /\ NumChildren(scans["A"].result.tree) = ChildCap
    /\ scans["A"].result.tree.children.list[1].size
         > scans["A"].result.tree.children.list[ChildCap].size

\* C15: the root of a returned tree is named "Root" for the path "/", "Home"
\* for a path equal to the home directory and by its final component
\* otherwise, and the tree builder and the fallback scanner name every root
\* alike
ExpectedRootName(root_text) ==
    IF PathFromText(root_text) = << >> THEN RootName
    ELSE IF PathFromText(root_text) = PathFromText(HomeText) THEN HomeName
    ELSE file_name(PathFromText(root_text))

RootNamedByRule ==
    /\ \A s \in Procs :
         (scans[s].pc = "done" /\ scans[s].result.kind = "ok")
            => scans[s].result.tree.name = ExpectedRootName(scans[s].root_text)
    /\ \A t \in RootTexts : TreeRootName(t) = DuRootName(t)

\* C16: in a tree the tree builder returns, a directory node below the root
\* has as children exactly the file nodes of the files of the map whose parent
\* is that directory, and has no children only when there is no such file
FilesDirectlyIn(files, dir) ==
    { LeafNode([ path |-> f, size |-> files[f] ]) :
        f \in { g \in DOMAIN files : HasParent(g) /\ Parent(g) = dir } }

SubdirChildrenAttached ==
    \A s \in Procs :
      (platform = "macos" /\ scans[s].pc = "done" /\ scans[s].result.kind = "ok")
         => LET T == scans[s].result.tree
            IN  \A i \in 1..NumChildren(T) :
                  LET child == T.children.list[i]
                      expected == FilesDirectlyIn(scans[s].all_files,
                                                  PathFromText(child.path))
                  IN  child.is_dir
                        => /\ child.children.some <=> expected # {}
                           /\ child.children.some
                                => /\ Len(child.children.list) = Cardinality(expected)
                                   /\ { child.children.list[j] :
                                          j \in 1..Len(child.children.list) } = expected

\* C17: in the indexed scanner after every pass, each key of directory_sizes
\* is the root or a directory below it and its value is the sum of the sizes
\* of the files of all_files below that directory; every directory between a
\* file and the root is a key; merging the pass's output once more, followed
\* by lines for files outside the root, changes neither map
NestedUnder(files, dir) ==
    { f \in DOMAIN files : Len(dir) < Len(f) /\ starts_with(f, dir) }

OutsideLines(root_path) ==
    SortNr({ StatLine(f) : f \in { g \in DOMAIN Files : ~starts_with(g, root_path) } })

DirectorySizesExact ==
    \A s \in Procs :
      LET sc == scans[s]
          root_path == RootPath(s)
          acc == [ files |-> sc.all_files, dirs |-> sc.directory_sizes ]
      IN  (platform = "macos" /\ sc.pass_idx >= 1)
            => /\ \A f \in DOMAIN sc.all_files : starts_with(f, root_path)
               /\ \A d \in DOMAIN sc.directory_sizes :
                    /\ starts_with(d, root_path)
                    /\ sc.directory_sizes[d] =
                         SumOver(sc.all_files, NestedUnder(sc.all_files, d))
               /\ \A f \in DOMAIN sc.all_files :
                    \A n \in Len(root_path)..(Len(f) - 1) :
                      SubSeq(f, 1, n) \in DOMAIN sc.directory_sizes
               /\ MergeLines(acc, sc.outs[sc.pass_idx] \o OutsideLines(root_path),
                             root_path) = acc

\* a scan of /r/d after its third pass: the third pass reported the files of
\* the second again, a directory below the root has its own key, and there are
\* files outside the root
RepeatedReportWitness ==
    /\ platform = "macos"
    /\ scans["A"].root_text = << "/", "r", "/", "d" >>
    /\ scans["A"].pass_idx >= 3
    /\ Len(scans["A"].outs[2]) >= 1
    /\ \A i \in 1..Len(scans["A"].outs[2]) :
         \E j \in 1..Len(scans["A"].outs[3]) : scans["A"].outs[3][j] = scans["A"].outs[2][i]
    /\ << <<"r">>, <<"d">>, <<"e">> >> \in DOMAIN scans["A"].directory_sizes
    /\ scans["A"].directory_sizes[<< <<"r">>, <<"d">> >>]
         > scans["A"].directory_sizes[<< <<"r">>, <<"d">>, <<"e">> >>]
    /\ OutsideLines(RootPath("A")) # << >>

\* C18: a scan changes the file cache only in the step in which it ends with
\* Ok; so a scan that ends in an error (cancelled, or a command that could not
\* be launched) has left the cache as it was when the scan started, and what
\* it emitted before stays emitted
Ends(s, kind) ==
    /\ scans[s].pc # "done"
    /\ scans'[s].pc = "done"
    /\ scans'[s].result.kind = kind

ErrorLeavesCache ==
    [][ /\ cache' # cache => \E s \in Procs : Ends(s, "ok")
        /\ \A s \in Procs :
             Ends(s, "err")
               => /\ cache' = cache
                  /\ ~scans'[s].merged
                  /\ SubSeq(scans'[s].events, 1, Len(scans[s].events)) = scans[s].events
      ]_vars

\* a scan that emitted events and then ended in an error without merging,
\* while the cache holds the files of an earlier scan
FailedScanWitness ==
    /\ scans["A"].pc = "done"
    /\ scans["A"].result.kind = "err"
    /\ scans["A"].events # << >>
    /\ ~scans["A"].merged
    /\ cache # << >>

\* C19: once the flag of the registered, still running scan is set, no step of
\* that scan returns Ok and no step merges files into the cache, wherever in
\* the scan the flag was set
CancelledScanNeverSucceeds ==
    [][ \A s \in Procs :
          (Running(s) /\ slot = scans[s].token /\ flag[scans[s].token])
             => /\ scans'[s].result.kind # "ok"
                /\ cache' = cache ]_vars

\* C20: a step of the pass loop reads the flag first: with the flag set it
\* ends the scan with no event and no command; with the flag clear it emits
\* the pass's progress event, then launches the query, and, when the query ran,
\* merges, counts and emits the count, and last emits the preview when the map
\* is large enough; a scan that has ended emits and launches nothing more
PassOrder ==
    [][ \A s \in Procs :
          /\ (scans[s].pc = "pass" /\ scans'[s] # scans[s])
               => LET old == scans[s].events
                      new == scans'[s].events
                      n == Len(old)
                      k == scans[s].pass_idx + 1
                      count == Cardinality(DOMAIN scans'[s].all_files)
                  IN  IF flag[scans[s].token]
                      THEN /\ new = old
                           /\ scans'[s].pc = "done"
                           /\ scans'[s].result.kind = "err"
                           /\ scans'[s].pass_idx = scans[s].pass_idx
                      ELSE /\ Len(new) >= n + 2
                           /\ SubSeq(new, 1, n) = old
                           /\ new[n + 1] = Progress("mdfind pass", k, scans[s].items_processed)
                           /\ new[n + 2] = Command("mdfind", k)
                           /\ IF scans'[s].pc = "done"
                              THEN /\ Len(new) = n + 2
                                   /\ scans'[s].result.kind = "err"
                                   /\ scans'[s].all_files = scans[s].all_files
                              ELSE /\ scans'[s].pass_idx = k
                                   /\ scans'[s].items_processed = count
                                   /\ Len(new) = n + 3 + (IF count > PreviewMin THEN 1 ELSE 0)
                                   /\ new[n + 3] = Progress("mdfind: found", k, count)
                                   /\ count > PreviewMin
                                        => /\ new[n + 4].kind = "scan-intermediate"
                                           /\ new[n + 4].tree.size =
                                                SumOver(scans'[s].all_files,
                                                        DOMAIN scans'[s].all_files)
          /\ scans[s].pc = "done" => scans'[s] \in { scans[s], IdleScan } ]_vars

\* a scan cancelled at the start of its third pass: its log ends with the
\* preview of the second pass and holds nothing of the third
CancelledBeforeThirdPassWitness ==
    /\ platform = "macos"
    /\ scans["A"].pc = "done"
    /\ scans["A"].result = Err("Scan cancelled")
    /\ scans["A"].pass_idx = 2
    /\ Len(scans["A"].events) >= 4
    /\ scans["A"].events[Len(scans["A"].events)].kind = "scan-intermediate"
    /\ \A i \in 1..Len(scans["A"].events) : scans["A"].events[i].n # 3

\* C21: in the indexed scanner, when the cache holds an entry below the root
\* the log starts with exactly one preview, built from those entries alone,
\* before the first progress event and the first query; when it holds none the
\* log starts with the progress event of pass 1; either way all_files and
\* directory_sizes are empty when pass 1 starts
CachedPreviews(cached_files, root_text) ==
    { build_tree_from_files(iter, CachedTreeDirs(iter, PathFromText(root_text)), root_text) :
        iter \in IterOrders(cached_files) }

SeedPreviewFirst ==
    \A s \in Procs :
      LET sc == scans[s]
          ev == sc.events
          lead == IF sc.seed = EmptyMap THEN 0 ELSE 1
      IN  (platform = "macos" /\ sc.pc \in { "pass", "finish", "done" })
            => /\ Len(ev) >= lead
               /\ lead = 1
                    => /\ ev[1].kind = "scan-intermediate"
                       /\ ev[1].tree \in CachedPreviews(sc.seed, sc.root_text)
                       /\ ev[1].tree.size = SumOver(sc.seed, DOMAIN sc.seed)
               /\ Len(ev) > lead
                    => ev[lead + 1] = Progress("mdfind pass", 1, 0)
               /\ (sc.pc = "pass" /\ sc.pass_idx = 0)
                    => /\ Len(ev) = lead
                       /\ sc.seed = get_cached_files_for_directory(cache, RootPath(s))
                       /\ sc.all_files = EmptyMap
                       /\ sc.directory_sizes = EmptyMap

\* a scan about to start pass 1 after the preview of two cached files
SeededBeforePassOneWitness ==
    /\ platform = "macos"
    /\ scans["A"].pc = "pass"
    /\ scans["A"].pass_idx = 0
    /\ Cardinality(DOMAIN scans["A"].seed) >= 2
    /\ Len(scans["A"].events) = 1
    /\ Len(cache) > Cardinality(DOMAIN scans["A"].seed)

\* C22: in the indexed scanner the count event of a pass is followed by a
\* preview exactly when all_files, without the cached entries of the first
\* preview, then holds more than the preview minimum (10 in the code); the
\* counts never decrease from pass to pass, so the passes after one that
\* emitted a preview emit one too; the preview of the latest pass is a tree
\* the builder gives for all_files and directory_sizes as they are
CountEvents(s) ==
    { i \in 1..Len(scans[s].events) :
        /\ scans[s].events[i].kind = "scan-progress"
        /\ scans[s].events[i].msg = "mdfind: found" }

PreviewFollows(s, i) ==
    /\ i < Len(scans[s].events)
    /\ scans[s].events[i + 1].kind = "scan-intermediate"

CurrentTrees(s) ==
    { build_tree_from_files(iter, scans[s].directory_sizes, scans[s].root_text) :
        iter \in IterOrders(scans[s].all_files) }

PreviewWhenLargeEnough ==
    \A s \in Procs :
      LET sc == scans[s]
          ev == sc.events
      IN  (platform = "macos" /\ sc.pc \in { "pass", "finish" })
            => /\ Cardinality(CountEvents(s)) = sc.pass_idx
               /\ \A i \in CountEvents(s) :
                    /\ PreviewFollows(s, i) <=> ev[i].items > PreviewMin
                    /\ \A j \in CountEvents(s) :
                         i < j => /\ ev[i].items <= ev[j].items
                                  /\ PreviewFollows(s, i) => PreviewFollows(s, j)
                    /\ ev[i].n = sc.pass_idx
                         => /\ ev[i].items = Cardinality(DOMAIN sc.all_files)
                            /\ PreviewFollows(s, i)
                                 => /\ i + 1 = Len(ev)
                                    /\ ev[i + 1].tree \in CurrentTrees(s)

\* a scan that started with the preview of more cached files than the
\* minimum, whose first pass emitted no preview and whose second and third did
LatePreviewWitness ==
    /\ platform = "macos"
    /\ scans["A"].pc = "pass"
    /\ scans["A"].pass_idx = 3
    /\ Cardinality(DOMAIN scans["A"].seed) > PreviewMin
    /\ \E i, j, k \in CountEvents("A") :
         /\ i < j /\ j < k
         /\ ~PreviewFollows("A", i)
         /\ PreviewFollows("A", j)
         /\ PreviewFollows("A", k)
         /\ scans["A"].events[j].items < scans["A"].events[k].items

\* C23: add_files_to_cache keeps the largest entries: the cache after the call
\* holds min(cap, entries before + entries of the batch) of the entries before
\* and of the batch, none more often than it was there, and no entry left out
\* is larger than an entry kept; with at most cap entries nothing is left out
Count(seq, e) == Cardinality({ i \in 1..Len(seq) : seq[i] = e })

Elems(seq) == { seq[i] : i \in 1..Len(seq) }

LargestKept(all, kept) ==
    /\ Len(kept) = (IF Len(all) <= CacheCap THEN Len(all) ELSE CacheCap)
    /\ \A e \in Elems(kept) : Count(kept, e) <= Count(all, e)
    /\ \A e \in Elems(all) :
         Count(kept, e) < Count(all, e)
            => \A k \in Elems(kept) : e.size <= k.size

AddKeepsLargest ==
    \A batch \in Batches :
      \A iter \in IterOrders(batch) :
        LargestKept(cache \o iter, add_files_to_cache(cache, iter))

\* a full cache with entries of both sizes, to which the add of a batch with a
\* large file makes a difference: a small entry is dropped for it
EvictionWitness ==
    /\ Len(cache) = CacheCap
    /\ cache[1].size > cache[CacheCap].size
    /\ \E batch \in Batches :
         \E iter \in IterOrders(batch) :
           /\ Len(iter) = 1
           /\ iter[1].size = cache[1].size
           /\ Count(add_files_to_cache(cache, iter), cache[CacheCap])
                < Count(cache, cache[CacheCap])

\* C24: no two entries of the file cache have the same path
CachePathsDistinct ==
    \A i, j \in 1..Len(cache) : i # j => cache[i].path # cache[j].path

\* C25: with the two cache functions called by overlapping invocations, every
\* query reads a cache that is in non-increasing order of size with at most
\* the capacity of entries, never one with a batch pushed and not yet sorted or
\* truncated, and whenever no call is inside the cache the cache is what the
\* adds give when made one after the other in the order of their pushes
RECURSIVE Replay(_)
Replay(history) ==
    IF history = << >> THEN << >>
    ELSE add_files_to_cache(Replay(SubSeq(history, 1, Len(history) - 1)),
                            history[Len(history)])

CacheCallsAtomic ==
    [][ /\ \A s \in Procs :
             (scans[s].pc = "query_read" /\ scans'[s].pc # "query_read")
                => CacheBoundedSorted
        /\ cache_guard' = "none" => cache' = Replay(adds') ]_vars

\* an add that has pushed its batch onto a cache left by earlier adds, which
\* now holds more than the capacity, and has not sorted yet, while the other invocation waits for the lock to query
QueryWaitsForAddWitness ==
    /\ scans["A"].pc = "add_sort"
    /\ cache_guard = "A"
    /\ Len(adds) = MaxAdds
    /\ Len(cache) > CacheCap
    /\ scans["B"].pc = "query_lock"

\* C26: the fallback scanner enumerates the root's entries directly exactly
\* when no line of the du output gave a child, whether or not children were
\* pre-seeded from the cache (stated for roots that have visible entries:
\* the enumeration then leaves a progress event and children)
ParsedLines(s) ==
    { i \in 1..Len(scans[s].stdout) : DuLineUsed(scans[s].stdout[i]) }

Enumerated(s) ==
    \E i \in 1..Len(scans[s].events) : scans[s].events[i].msg = "du fallback"

IsSignificant(child) == child.is_dir \/ child.size >= MinSize

ExpectedChildren(all) ==
    IF Len(all) <= FilterCount THEN all
    ELSE LET significant == SelectSeq(all, IsSignificant)
         IN  SubSeq(significant, 1,
                    IF Len(significant) < ChildCap THEN Len(significant) ELSE ChildCap)

FirstSpace(line) ==
    IF \E i \in 1..Len(line) : IsSpace(line[i])
    THEN CHOOSE i \in 1..Len(line) : IsSpace(line[i]) /\ \A j \in 1..(i - 1) : ~IsSpace(line[j])
    ELSE 0

SizeField(line) == SubSeq(line, 1, FirstSpace(line) - 1)

NameField(line) == SubSeq(line, FirstSpace(line) + 1, Len(line))

WellFormedDuLine(line) ==
    /\ FirstSpace(line) > 1
    /\ \A i \in 1..Len(SizeField(line)) : IsDigit(SizeField(line)[i])
    /\ NameField(line) # << >>
    /\ ~IsSpace(NameField(line)[1])

DuNamesExact ==
    \A s \in Procs :
      (platform # "macos" /\ scans[s].pc \in { "du_lines", "done" })
         => \A i \in 1..scans[s].line_idx :
              LET line == scans[s].stdout[i]
              IN  WellFormedDuLine(line)
                    => Cardinality({ j \in 1..Len(scans[s].children) :
                          /\ scans[s].children[j].size = DigitsValue(SizeField(line)) * 1024
                          /\ scans[s].children[j].name = NameField(line) }) = 1

\* C29: a malformed line of a tool's output (no separator, a single field, a
\* size that is no unsigned number, a blank line) adds no file, no child and
\* no bytes, raises no error and does not stop the lines after it: both
\* scanners end up with what the output without these lines gives
Clean(out, bad) ==
    LET NotBad(line) == \A i \in 1..Len(bad) : bad[i] # line
    IN  SelectSeq(out, NotBad)

ChildrenOfLines(root_path, lines) ==
    [ i \in 1..Len(lines) |-> DuChild(root_path, lines[i]) ]

MalformedLinesSkipped ==
    \A s \in Procs :
      LET sc == scans[s]
          root_path == RootPath(s)
      IN  /\ (sc.pc = "done" /\ sc.result.kind = "err")
                => sc.result.err \in { "Failed to execute mdfind", "Failed to execute du" }
          /\ (platform = "macos" /\ sc.pass_idx >= 1)
                => LET clean == [ k \in 1..Len(sc.outs) |-> Clean(sc.outs[k], BadStatLines) ]
                       acc == MergeOutputs([ files |-> EmptyMap, dirs |-> EmptyMap ],
                                           clean, root_path)
                   IN  /\ sc.all_files = acc.files
                       /\ sc.directory_sizes = acc.dirs
                       /\ \A f \in DOMAIN sc.all_files : sc.all_files[f] = Files[f]
          /\ (platform # "macos" /\ sc.pc = "du_lines")
                => LET used == Clean(SubSeq(sc.stdout, 1, sc.line_idx), BadDuLines)
                   IN  /\ sc.children = ChildrenOfLines(root_path, used)
                       /\ sc.total_size = SumSizes(sc.children)
          /\ (platform # "macos" /\ sc.pc = "done" /\ sc.result.kind = "ok")
                => LET used == Clean(sc.stdout, BadDuLines)
                   IN  /\ sc.line_idx = Len(sc.stdout)
                       /\ used # << >>
                            => /\ sc.children = SortBySizeDesc(ChildrenOfLines(root_path, used))
                               /\ sc.result.tree.size = SumSizes(sc.children)

\* the indexed scanner after its last pass, each output of which had malformed
\* lines before its first and after its last line, with the files of all passes
GarbledScanWitness ==
    /\ platform = "macos"
    /\ scans["A"].pc = "done"
    /\ scans["A"].result.kind = "ok"
    /\ Len(scans["A"].outs) = NumPasses
    /\ \A k \in 1..NumPasses :
         /\ Len(scans["A"].outs[k]) > Len(BadStatLines)
         /\ scans["A"].outs[k][1] = BadStatLines[1]
         /\ scans["A"].outs[k][Len(scans["A"].outs[k])] = << >>
    /\ Cardinality(DOMAIN scans["A"].all_files) >= 4

\* C30: in a tree the tree builder returns with the cap not reached, every
\* directory below the root, at any depth, that has a non-zero size in
\* directory_sizes is a node of the tree, a directory of that size
TreeNodes(T) ==
    LET level1 == IF T.children.some
                  THEN { T.children.list[i] : i \in 1..Len(T.children.list) } ELSE {}
    IN  level1 \cup
        UNION { IF c.children.some
                THEN { c.children.list[i] : i \in 1..Len(c.children.list) } ELSE {} :
                c \in level1 }

EveryDirectoryHasNode ==
    \A s \in Procs :
      LET sc == scans[s]
          root_path == RootPath(s)
      IN  (/\ platform = "macos"
           /\ sc.pc = "done"
           /\ sc.result.kind = "ok"
           /\ RootCandidates(sc.all_files, sc.directory_sizes, root_path) <= ChildCap)
             => \A d \in DOMAIN sc.directory_sizes :
                  (d # root_path /\ sc.directory_sizes[d] > 0)
                     => \E node \in TreeNodes(sc.result.tree) :
                          /\ node.is_dir
                          /\ PathFromText(node.path) = d
                          /\ node.size = sc.directory_sizes[d]

====
